---- MODULE Spec2Model ----
(***************************************************************************)
(* Model of app.py of ProductCodeOCR: two extraction adapters (PaddleOCR   *)
(* and Gemini) read a product code from the top third of each image of a   *)
(* directory, process_image_with_both_ocr reconciles the two results, and  *)
(* the main loop aggregates the reconciled codes into count records that   *)
(* write_results_to_csv exports.                                           *)
(*                                                                         *)
(* A Python str is a sequence of one-character strings; "" is << >>.       *)
(***************************************************************************)
EXTENDS Integers, Sequences, FiniteSets, TLC

\* ------------------------------------------------------------------------
\* Bounds of the model
\* ------------------------------------------------------------------------

\* longest backend text enumerated exhaustively
MaxTextLen == 6

\* most text tokens in one PaddleOCR result
MaxTokens == 2

\* most directory entries of one run
MaxImages == 4

\* ------------------------------------------------------------------------
\* Program constants
\* ------------------------------------------------------------------------

IMAGE_CROP_SIZE == 3

\* the {5} of both regular expressions and the 5 of text[:5]
CODE_LEN == 5

\* the character class [A-Z0-9]
CodeAlphabet ==
    {"A","B","C","D","E","F","G","H","I","J","K","L","M",
     "N","O","P","Q","R","S","T","U","V","W","X","Y","Z",
     "0","1","2","3","4","5","6","7","8","9"}

\* what str.strip() removes
Whitespace == {" "}

\* ------------------------------------------------------------------------
\* String helpers
\* ------------------------------------------------------------------------

SetMin(S) == CHOOSE x \in S : \A y \in S : x <= y

SetMax(S) == CHOOSE x \in S : \A y \in S : x >= y

\* all sequences over S of length at most n
SeqsUpTo(S, n) == UNION {[1..k -> S] : k \in 0..n}

\* variant of MatchAt with the character class [A-Za-z0-9]
MatchAt_ignore_case(text, i) ==
    /\ i >= 1
    /\ i + CODE_LEN - 1 <= Len(text)
    /\ \A k \in i..(i + CODE_LEN - 1) :
          text[k] \in CodeAlphabet \cup {"a", "b", "y", "z"}

\* [A-Z0-9]{5} matches the text at position i
MatchAt(text, i) ==
    /\ i >= 1
    /\ i + CODE_LEN - 1 <= Len(text)
    /\ \A k \in i..(i + CODE_LEN - 1) : text[k] \in CodeAlphabet

\* re.match(r'^[A-Z0-9]{5}', text) is not None
re_match(text) == MatchAt(text, 1)

\* text[:5]
Prefix5(text) == SubSeq(text, 1, IF Len(text) < CODE_LEN THEN Len(text) ELSE CODE_LEN)

\* re.search(r'[A-Z0-9]{5}', text) is not None
re_search(text) == \E i \in 1..Len(text) : MatchAt(text, i)

\* match.group() of re.search: the leftmost match
match_group(text) ==
    LET i == SetMin({j \in 1..Len(text) : MatchAt(text, j)})
    IN  SubSeq(text, i, i + CODE_LEN - 1)

\* str.strip()
strip(text) ==
    LET keep == {i \in 1..Len(text) : text[i] \notin Whitespace}
    IN  IF keep = {} THEN << >> ELSE SubSeq(text, SetMin(keep), SetMax(keep))

\* a valid Code: exactly 5 characters of the alphabet
IsCode(c) == Len(c) = CODE_LEN /\ \A k \in 1..Len(c) : c[k] \in CodeAlphabet

\* str(n) of the csv writer for a non-negative int: its decimal digits
RECURSIVE str_int(_)
str_int(n) ==
    LET digit == <<"0","1","2","3","4","5","6","7","8","9">>[(n % 10) + 1]
    IN  IF n < 10 THEN <<digit>> ELSE Append(str_int(n \div 10), digit)

\* ------------------------------------------------------------------------
\* Backend values
\* ------------------------------------------------------------------------

\* the codes named by the documented scenarios
AB12C == <<"A","B","1","2","C">>

XXXXX == <<"X","X","X","X","X">>

ABC12 == <<"A","B","C","1","2">>

ABC13 == <<"A","B","C","1","3">>

\* "AB12Xyz": a valid 5-run followed by lowercase letters
AB12Xyz == <<"A","B","1","2","X","y","z">>

\* an upper-case letter, a digit, a lower-case letter and a blank
TextAlphabet == {"A", "1", "y", " "}

\* every text over TextAlphabet up to MaxTextLen, and the named texts
Texts ==
    SeqsUpTo(TextAlphabet, MaxTextLen)
        \cup {AB12C, XXXXX, ABC12, ABC13, AB12Xyz, <<"a","b">> \o AB12C}

\* the texts a further token of a PaddleOCR result is drawn from
TokenTexts == {AB12C, AB12Xyz, <<"y">>, << >>}

\* one element of a PaddleOCR result: the rec_texts of a dict (predict), or
\* the line texts of a nested list (the legacy ocr.ocr), which is None when
\* the legacy API found no text
Page(texts) == [none |-> FALSE, texts |-> texts]

NonePage == [none |-> TRUE, texts |-> << >>]

\* result of ocr.predict / ocr.ocr: fmt "dict" when result[0] is a dict
OcrResult(fmt, pages) == [fmt |-> fmt, pages |-> pages]

\* value of an adapter call: a returned str, or an exception that propagates
Returns(code) == [raised |-> FALSE, code |-> code]

Raises == [raised |-> TRUE, code |-> << >>]

\* ------------------------------------------------------------------------
\* process_image_paddle
\* ------------------------------------------------------------------------

\* variant of FirstMatch that returns the matching text without the [:5] cut
FirstMatch_whole_text(texts) ==
    LET hit == {k \in 1..Len(texts) : re_match(texts[k])}
    IN  IF hit = {} THEN << >> ELSE texts[SetMin(hit)]

\* the first text of the list that matches, cut to 5 characters; "" if none
FirstMatch(texts) ==
    LET hit == {k \in 1..Len(texts) : re_match(texts[k])}
    IN  IF hit = {} THEN << >> ELSE Prefix5(texts[SetMin(hit)])

\* lines 85-103: the scan of the backend's result
PaddleParse(result) ==
    IF Len(result.pages) = 0 THEN Returns(<< >>)
    ELSE IF result.fmt = "dict" THEN Returns(FirstMatch(result.pages[1].texts))
    ELSE LET stop == {p \in 1..Len(result.pages) :
                         \/ result.pages[p].none
                         \/ FirstMatch(result.pages[p].texts) # << >>}
         IN  IF stop = {} THEN Returns(<< >>)
             ELSE IF result.pages[SetMin(stop)].none THEN Raises
             ELSE Returns(FirstMatch(result.pages[SetMin(stop)].texts))

\* lines 59-103. ocr is _ocr_instance after get_ocr_instance; call is what the
\* backend does: predict/legacy in {"ok", "AttributeError", "error"}, result
process_image_paddle(ocr, image, call) ==
    IF ocr = "None" THEN Returns(<< >>)
    ELSE IF ~image.readable THEN Raises
    ELSE IF call.predict = "error" THEN Raises
    ELSE IF call.predict = "AttributeError" /\ call.legacy # "ok" THEN Raises
    ELSE PaddleParse(call.result)

\* ------------------------------------------------------------------------
\* process_image_gemini
\* ------------------------------------------------------------------------

\* response of model.generate_content
Response(kind, text) == [kind |-> kind, text |-> text]

\* lines 128-174: the try block around generate_content
GeminiParse(response) ==
    IF response.kind # "text" THEN << >>
    ELSE IF response.text = << >> THEN << >>
    ELSE IF strip(response.text) = << >> THEN << >>
    ELSE IF re_search(strip(response.text)) THEN match_group(strip(response.text))
    ELSE << >>

\* lines 105-174. model is _gemini_model after get_gemini_model; save is "ok"
\* or "error" (top_third.save, outside the try block)
process_image_gemini(model, image, save, response) ==
    IF model = "None" THEN Returns(<< >>)
    ELSE IF ~image.readable THEN Raises
    ELSE IF save = "error" THEN Raises
    ELSE Returns(GeminiParse(response))

\* ------------------------------------------------------------------------
\* process_image_with_both_ocr
\* ------------------------------------------------------------------------

\* variant of reconcile that gives up when both engines answer and differ
reconcile_drop_conflict(paddle, gemini) ==
    IF paddle = gemini THEN paddle
    ELSE IF paddle # << >> /\ gemini = << >> THEN paddle
    ELSE IF gemini # << >> /\ paddle = << >> THEN gemini
    ELSE << >>

\* variant of reconcile in which Gemini wins a disagreement
reconcile_prefer_gemini(paddle, gemini) ==
    IF paddle = gemini THEN paddle
    ELSE IF paddle # << >> /\ gemini = << >> THEN paddle
    ELSE gemini

\* lines 183-198
reconcile(paddle, gemini) ==
    IF paddle = gemini THEN paddle
    ELSE IF paddle # << >> /\ gemini = << >> THEN paddle
    ELSE IF gemini # << >> /\ paddle = << >> THEN gemini
    ELSE paddle

\* ------------------------------------------------------------------------
\* Lazy backend handles
\* ------------------------------------------------------------------------

\* lines 27-46: _ocr_instance after one call; init_ok is whether PaddleOCR(...)
\* constructs (it is only tried while the handle is None)
get_ocr_instance(ocr, init_ok) ==
    IF ocr = "None" THEN (IF init_ok THEN "PaddleOCR" ELSE "None") ELSE ocr

\* line 44: logging.error runs when the constructor was tried and failed
ocr_init_failed(ocr, init_ok) == ocr = "None" /\ ~init_ok

\* variant of get_gemini_model without the check of the credential
get_gemini_model_no_key_check(model, api_key) ==
    IF model = "None" THEN "GenerativeModel" ELSE model

\* lines 48-57: _gemini_model after one call
get_gemini_model(model, api_key) ==
    IF model = "None" THEN (IF ~api_key THEN "None" ELSE "GenerativeModel") ELSE model

\* ------------------------------------------------------------------------
\* Aggregation and export
\* ------------------------------------------------------------------------

\* a row [assortment_number, model_number, quantity] of results
Record(a, m, q) == [assortment_number |-> a, model_number |-> m, quantity |-> q]

\* variant of observe that puts a new record in front of the list
observe_prepend(res, assortment, model_number) ==
    IF model_number = << >> THEN res
    ELSE LET found == {i \in 1..Len(res) :
                          /\ res[i].assortment_number = assortment
                          /\ res[i].model_number = model_number}
         IN  IF found # {}
             THEN [res EXCEPT ![SetMin(found)].quantity = @ + 1]
             ELSE <<Record(assortment, model_number, 1)>> \o res

\* lines 252-265: the aggregation of one reconciled result
observe(res, assortment, model_number) ==
    IF model_number = << >> THEN res
    ELSE LET found == {i \in 1..Len(res) :
                          /\ res[i].assortment_number = assortment
                          /\ res[i].model_number = model_number}
         IN  IF found # {}
             THEN [res EXCEPT ![SetMin(found)].quantity = @ + 1]
             ELSE Append(res, Record(assortment, model_number, 1))

\* variant of write_results_to_csv that writes the rows last record first
write_results_reversed(res) ==
    [header |-> <<"assortment_number", "model_number", "quantity">>,
     rows   |-> [i \in 1..Len(res) |->
                    <<res[Len(res) + 1 - i].assortment_number,
                      res[Len(res) + 1 - i].model_number,
                      str_int(res[Len(res) + 1 - i].quantity)>>]]

\* lines 200-205: the header and one row per record, in list order
write_results_to_csv(res) ==
    [header |-> <<"assortment_number", "model_number", "quantity">>,
     rows   |-> [i \in 1..Len(res) |->
                    <<res[i].assortment_number, res[i].model_number,
                      str_int(res[i].quantity)>>]]

\* the csv file before it is written
NoCsv == [header |-> << >>, rows |-> << >>]

\* ------------------------------------------------------------------------
\* Inputs of a run
\* ------------------------------------------------------------------------

\* os.path.basename(image_dir)
Labels == {"X", "LOT7"}

\* image heights: 2 // 3 = 0 rows (a degenerate crop), 3 // 3 = 1 row
Heights == {2, 3}

\* a directory entry that is a file: an image Image.open reads, or any other
Images == {[readable |-> TRUE, height |-> h] : h \in Heights}
              \cup {[readable |-> FALSE, height |-> 0]}

\* no file is being processed
NoImage == [readable |-> FALSE, height |-> -1]

\* line 70 / line 115: the height of top_third
crop_height(image) == image.height \div IMAGE_CROP_SIZE

Degenerate(image) == image.readable /\ crop_height(image) = 0

Call(predict, legacy, result) == [predict |-> predict, legacy |-> legacy, result |-> result]

\* results the PaddleOCR backend gives for a crop with pixels
PaddleSampleCalls ==
    {Call("ok", "ok", OcrResult("dict", <<Page(ts)>>)) :
        ts \in {<<AB12C>>, <<ABC12>>, <<ABC13>>, << >>, <<AB12Xyz>>,
                <<<<"y">>, ABC12 \o <<"3">>>>}}
    \cup {Call("AttributeError", "ok", OcrResult("list", ps)) :
        ps \in {<<Page(<<AB12C>>)>>, <<NonePage>>, <<Page(<< >>), Page(<<ABC13>>)>>}}
    \cup {Call("error", "ok", OcrResult("dict", << >>)),
          Call("AttributeError", "error", OcrResult("list", << >>))}

\* a crop without rows holds no text: the backend fails or finds nothing
PaddleEmptyCalls ==
    {Call("ok", "ok", OcrResult("dict", <<Page(<< >>)>>)),
     Call("ok", "ok", OcrResult("dict", << >>)),
     Call("AttributeError", "ok", OcrResult("list", <<NonePage>>)),
     Call("error", "ok", OcrResult("dict", << >>))}

PaddleCalls(image) == IF Degenerate(image) THEN PaddleEmptyCalls ELSE PaddleSampleCalls

\* responses of generate_content
GeminiSampleResponses ==
    {Response("text", t) :
        t \in {AB12C, XXXXX, <<" ">> \o ABC12 \o <<" ">>, <<"y", " ">> \o ABC13,
               <<"y">>, <<" ">>}}
    \cup {Response(k, << >>) :
        k \in {"no_candidates", "no_parts", "no_text", "quota", "exception"}}

\* top_third.save(img_bytes, format='PNG'): the encoder may refuse an image
\* without rows
SaveOutcomes(image) == IF Degenerate(image) THEN {"ok", "error"} ELSE {"ok"}

\* per image of the LOT7 scenario: what engine A and engine B return
Lot7A == <<AB12C, AB12C, << >>, << >>>>

Lot7B == <<AB12C, XXXXX, AB12C, << >>>>

\* ------------------------------------------------------------------------
\* State
\* ------------------------------------------------------------------------

VARIABLES
    pc,              \* position of the main program
    GEMINI_API_KEY,  \* the credential is in the environment
    label,           \* os.path.basename(image_dir)
    ocr_instance,    \* _ocr_instance
    gemini_model,    \* _gemini_model
    idx,             \* entries of image_files consumed by the loop
    image,           \* the file being processed
    paddle_result,   \* paddle_result of process_image_with_both_ocr
    gemini_result,   \* gemini_result of process_image_with_both_ocr
    result,          \* result of the main loop
    results,         \* results of the main loop
    csv_file,        \* what write_results_to_csv wrote
    ocr_text,        \* the OCR result under test (single-image runs)
    response_text,   \* the Gemini response under test (single-image runs)
    log_ocr_init,    \* logging.error calls of line 44
    log_no_key,      \* logging.warning calls of line 109
    generate_calls,  \* model.generate_content calls
    observed,        \* every reconciled result so far, oldest first
    lot7             \* images so far that follow the LOT7 scenario, -1 if none

vars == <<pc, GEMINI_API_KEY, label, ocr_instance, gemini_model, idx, image,
          paddle_result, gemini_result, result, results, csv_file, ocr_text,
          response_text, log_ocr_init, log_no_key, generate_calls, observed, lot7>>

NoOcrResult == OcrResult("dict", << >>)

NoResponse == Response("none", << >>)

\* the state at line 224, for a directory label and an environment
InitWith(l, key) ==
    /\ pc = "start"
    /\ GEMINI_API_KEY = key
    /\ label = l
    /\ ocr_instance = "None"
    /\ gemini_model = "None"
    /\ idx = 0
    /\ image = NoImage
    /\ paddle_result = << >>
    /\ gemini_result = << >>
    /\ result = << >>
    /\ results = << >>
    /\ csv_file = NoCsv
    /\ ocr_text = NoOcrResult
    /\ response_text = NoResponse
    /\ log_ocr_init = 0
    /\ log_no_key = 0
    /\ generate_calls = 0
    /\ observed = << >>
    /\ lot7 = 0

Init == \E l \in Labels, key \in BOOLEAN : InitWith(l, key)

\* ------------------------------------------------------------------------
\* The main program
\* ------------------------------------------------------------------------

\* lines 224-238: both handles are initialised before the loop
Startup ==
    /\ pc = "start"
    /\ \E init_ok \in BOOLEAN :
          /\ ocr_instance' = get_ocr_instance(ocr_instance, init_ok)
          /\ log_ocr_init' = log_ocr_init
                                + (IF ocr_init_failed(ocr_instance, init_ok) THEN 1 ELSE 0)
    /\ gemini_model' = IF GEMINI_API_KEY
                       THEN get_gemini_model(gemini_model, GEMINI_API_KEY)
                       ELSE gemini_model
    /\ pc' = "loop"
    /\ UNCHANGED <<GEMINI_API_KEY, label, idx, image, paddle_result, gemini_result,
                   result, results, csv_file, ocr_text, response_text, log_no_key,
                   generate_calls, observed, lot7>>

\* lines 248-250, an entry that is not a file: the loop goes on to the next
SkipEntry ==
    /\ pc = "loop"
    /\ idx < MaxImages
    /\ idx' = idx + 1
    /\ UNCHANGED <<pc, GEMINI_API_KEY, label, ocr_instance, gemini_model, image,
                   paddle_result, gemini_result, result, results, csv_file, ocr_text,
                   response_text, log_ocr_init, log_no_key, generate_calls, observed,
                   lot7>>

\* lines 248-251, an entry that is a file: process_image_with_both_ocr is entered
NextFile ==
    /\ pc = "loop"
    /\ idx < MaxImages
    /\ \E im \in Images : image' = im
    /\ pc' = "paddle"
    /\ UNCHANGED <<GEMINI_API_KEY, label, ocr_instance, gemini_model, idx,
                   paddle_result, gemini_result, result, results, csv_file, ocr_text,
                   response_text, log_ocr_init, log_no_key, generate_calls, observed,
                   lot7>>

\* line 178: process_image_paddle; an exception it raises ends the program
ProcessImagePaddle ==
    /\ pc = "paddle"
    /\ \E init_ok \in BOOLEAN, call \in PaddleCalls(image) :
          LET ocr == get_ocr_instance(ocr_instance, init_ok)
              out == process_image_paddle(ocr, image, call)
          IN  /\ ocr_instance' = ocr
              /\ log_ocr_init' = log_ocr_init
                     + (IF ocr_init_failed(ocr_instance, init_ok) THEN 1 ELSE 0)
              /\ paddle_result' = out.code
              /\ pc' = IF out.raised THEN "aborted" ELSE "gemini"
    /\ UNCHANGED <<GEMINI_API_KEY, label, gemini_model, idx, image, gemini_result,
                   result, results, csv_file, ocr_text, response_text, log_no_key,
                   generate_calls, observed, lot7>>

\* line 181: process_image_gemini; an exception it raises ends the program
ProcessImageGemini ==
    /\ pc = "gemini"
    /\ \E save \in SaveOutcomes(image), response \in GeminiSampleResponses :
          LET model == get_gemini_model(gemini_model, GEMINI_API_KEY)
              out   == process_image_gemini(model, image, save, response)
          IN  /\ gemini_model' = model
              /\ log_no_key' = log_no_key + (IF model = "None" THEN 1 ELSE 0)
              /\ generate_calls' = generate_calls
                     + (IF model # "None" /\ image.readable /\ save = "ok" THEN 1 ELSE 0)
              /\ gemini_result' = out.code
              /\ pc' = IF out.raised THEN "aborted" ELSE "reconcile"
    /\ UNCHANGED <<GEMINI_API_KEY, label, ocr_instance, idx, image, paddle_result,
                   result, results, csv_file, ocr_text, response_text, log_ocr_init,
                   observed, lot7>>

\* lines 183-198 and line 251: the reconciled result reaches the main loop
Reconcile ==
    /\ pc = "reconcile"
    /\ result' = reconcile(paddle_result, gemini_result)
    /\ pc' = "observe"
    /\ UNCHANGED <<GEMINI_API_KEY, label, ocr_instance, gemini_model, idx, image,
                   paddle_result, gemini_result, results, csv_file, ocr_text,
                   response_text, log_ocr_init, log_no_key, generate_calls, observed,
                   lot7>>

\* lines 252-265: the aggregation step; the loop goes on to the next entry. The
\* locals of the finished call are dead and are cleared.
Observe ==
    /\ pc = "observe"
    /\ results' = observe(results, label, result)
    /\ observed' = Append(observed, result)
    /\ lot7' = IF /\ lot7 >= 0
                  /\ lot7 < Len(Lot7A)
                  /\ paddle_result = Lot7A[lot7 + 1]
                  /\ gemini_result = Lot7B[lot7 + 1]
               THEN lot7 + 1
               ELSE -1
    /\ idx' = idx + 1
    /\ image' = NoImage
    /\ paddle_result' = << >>
    /\ gemini_result' = << >>
    /\ result' = << >>
    /\ pc' = "loop"
    /\ UNCHANGED <<GEMINI_API_KEY, label, ocr_instance, gemini_model, csv_file,
                   ocr_text, response_text, log_ocr_init, log_no_key, generate_calls>>

\* lines 267-272: after the last entry the records are written
WriteCsv ==
    /\ pc = "loop"
    /\ csv_file' = write_results_to_csv(results)
    /\ pc' = "done"
    /\ UNCHANGED <<GEMINI_API_KEY, label, ocr_instance, gemini_model, idx, image,
                   paddle_result, gemini_result, result, results, ocr_text,
                   response_text, log_ocr_init, log_no_key, generate_calls, observed,
                   lot7>>

Next ==
    \/ Startup
    \/ SkipEntry
    \/ NextFile
    \/ ProcessImagePaddle
    \/ ProcessImageGemini
    \/ Reconcile
    \/ Observe
    \/ WriteCsv

Spec == Init /\ [][Next]_vars

\* ------------------------------------------------------------------------
\* One image, every backend text: both adapters on the same recognised text
\* ------------------------------------------------------------------------

\* the first recognised text of an OCR result, "" if there is none
FirstText(r) ==
    IF Len(r.pages) = 0 THEN << >>
    ELSE IF Len(r.pages[1].texts) = 0 THEN << >>
    ELSE r.pages[1].texts[1]

\* OCR results: one token of any text, several tokens, several pages
ExtractOcrResults ==
    {OcrResult(fmt, <<Page(<<t>>)>>) : fmt \in {"dict", "list"}, t \in Texts}
    \cup {OcrResult(fmt, <<Page(ts)>>) :
             fmt \in {"dict", "list"}, ts \in SeqsUpTo(TokenTexts, MaxTokens)}
    \cup {OcrResult(fmt, <<Page(ts), p>>) :
             fmt \in {"dict", "list"}, ts \in SeqsUpTo(TokenTexts, MaxTokens),
             p \in {NonePage, Page(<<ABC13>>)}}

\* the program after Startup with both backends available, at line 251 for
\* the only image of the directory
InitExtract ==
    /\ pc = "extract"
    /\ GEMINI_API_KEY = TRUE
    /\ label = "X"
    /\ ocr_instance = "PaddleOCR"
    /\ gemini_model = "GenerativeModel"
    /\ idx = MaxImages - 1
    /\ image = [readable |-> TRUE, height |-> 3]
    /\ paddle_result = << >>
    /\ gemini_result = << >>
    /\ result = << >>
    /\ results = << >>
    /\ csv_file = NoCsv
    /\ ocr_text \in ExtractOcrResults
    /\ response_text = Response("text", FirstText(ocr_text))
    /\ log_ocr_init = 0
    /\ log_no_key = 0
    /\ generate_calls = 0
    /\ observed = << >>
    /\ lot7 = -1

\* lines 178-181 with the backends answering ocr_text and response_text
ExtractBoth ==
    /\ pc = "extract"
    /\ LET call == IF ocr_text.fmt = "dict"
                   THEN Call("ok", "ok", ocr_text)
                   ELSE Call("AttributeError", "ok", ocr_text)
           a == process_image_paddle(ocr_instance, image, call)
           b == process_image_gemini(gemini_model, image, "ok", response_text)
       IN  /\ paddle_result' = a.code
           /\ gemini_result' = IF a.raised THEN << >> ELSE b.code
           /\ generate_calls' = generate_calls + (IF a.raised THEN 0 ELSE 1)
           /\ pc' = IF a.raised \/ b.raised THEN "aborted" ELSE "reconcile"
    /\ UNCHANGED <<GEMINI_API_KEY, label, ocr_instance, gemini_model, idx, image,
                   result, results, csv_file, ocr_text, response_text, log_ocr_init,
                   log_no_key, observed, lot7>>

NextExtract ==
    \/ ExtractBoth
    \/ Reconcile
    \/ Observe
    \/ WriteCsv

SpecExtract == InitExtract /\ [][NextExtract]_vars

\* ------------------------------------------------------------------------
\* One image, every pair of adapter results
\* ------------------------------------------------------------------------

\* absent, the named codes and every code over two characters
ReconcileInputs ==
    {<< >>, AB12C, XXXXX, ABC12, ABC13} \cup [1..CODE_LEN -> {"A", "1"}]

\* the program at line 183 with the two adapter results of the only image
InitReconcile ==
    /\ pc = "reconcile"
    /\ GEMINI_API_KEY = TRUE
    /\ label = "X"
    /\ ocr_instance = "PaddleOCR"
    /\ gemini_model = "GenerativeModel"
    /\ idx = MaxImages - 1
    /\ image = [readable |-> TRUE, height |-> 3]
    /\ paddle_result \in ReconcileInputs
    /\ gemini_result \in ReconcileInputs
    /\ result = << >>
    /\ results = << >>
    /\ csv_file = NoCsv
    /\ ocr_text = NoOcrResult
    /\ response_text = NoResponse
    /\ log_ocr_init = 0
    /\ log_no_key = 0
    /\ generate_calls = 1
    /\ observed = << >>
    /\ lot7 = -1

NextReconcile ==
    \/ Reconcile
    \/ Observe
    \/ WriteCsv

SpecReconcile == InitReconcile /\ [][NextReconcile]_vars

\* ------------------------------------------------------------------------
\* Helpers of the properties
\* ------------------------------------------------------------------------

AB12X == <<"A","B","1","2","X">>

Present(c) == c # << >>

\* the reconciled codes that were not absent, oldest first
ObservedCodes == SelectSeq(observed, Present)

\* positions of `observed` where a code appears for the first time
FirstSeen(obs) ==
    {i \in 1..Len(obs) : Present(obs[i]) /\ \A j \in 1..(i - 1) : obs[j] # obs[i]}

\* the k-th smallest element of a set of numbers
Nth(S, k) == CHOOSE i \in S : Cardinality({j \in S : j <= i}) = k

\* the rows a run over `obs` is to export: one per distinct code, in order of
\* first appearance, with the number of images reconciled to it
ExpectedRows(d, obs) ==
    [k \in 1..Cardinality(FirstSeen(obs)) |->
        LET c == obs[Nth(FirstSeen(obs), k)]
        IN  <<d, c, str_int(Cardinality({j \in 1..Len(obs) : obs[j] = c}))>>]

RECURSIVE SumQuantity(_)
SumQuantity(res) ==
    IF res = << >> THEN 0 ELSE res[1].quantity + SumQuantity(Tail(res))

\* some five consecutive characters of the text, starting at i, are all in A-Z0-9
RunAt(text, i) ==
    /\ i \in 1..(Len(text) - 4)
    /\ \A k \in 0..4 : text[i + k] \in CodeAlphabet

HasRun(text) == \E i \in 1..Len(text) : RunAt(text, i)

\* the tokens process_image_paddle looks at: rec_texts of result[0] for the
\* dict format, the lines of every page for the nested-list format
ScannedTexts(r) ==
    IF Len(r.pages) = 0 THEN {}
    ELSE IF r.fmt = "dict" THEN {r.pages[1].texts[k] : k \in 1..Len(r.pages[1].texts)}
    ELSE UNION {{r.pages[p].texts[k] : k \in 1..Len(r.pages[p].texts)} :
                   p \in 1..Len(r.pages)}

\* every code held anywhere by the program
CodesHeld ==
    {paddle_result, gemini_result, result}
        \cup {results[i].model_number : i \in 1..Len(results)}
        \cup {csv_file.rows[i][2] : i \in 1..Len(csv_file.rows)}
        \cup {observed[i] : i \in 1..Len(observed)}

\* ------------------------------------------------------------------------
\* C1
\* ------------------------------------------------------------------------

\* C1: the reconciled result is a when a = b, the present one when exactly one
\* of a, b is present, and a (PaddleOCR's code) when both are present and
\* differ; so it is one of the two inputs and absent only when both are absent.
C1_Reconcile ==
    pc = "observe" =>
        LET a == paddle_result
            b == gemini_result
        IN  /\ (a = b => result = a)
            /\ (Present(a) /\ ~Present(b) => result = a)
            /\ (~Present(a) /\ Present(b) => result = b)
            /\ (Present(a) /\ Present(b) /\ a # b => result = a)
            /\ result \in {a, b}
            /\ (~Present(result) <=> (~Present(a) /\ ~Present(b)))

C1_Witness ==
    /\ pc = "observe"
    /\ paddle_result = AB12C
    /\ gemini_result = XXXXX
    /\ result = AB12C

\* ------------------------------------------------------------------------
\* C2
\* ------------------------------------------------------------------------

\* C2: reconcile(A,B) = reconcile(B,A) when A = B or exactly one is absent; when
\* both are present and differ, reconcile(A,B) = A and reconcile(B,A) = B, so
\* the two orders give different results.
C2_Symmetry ==
    pc = "observe" =>
        LET a  == paddle_result
            b  == gemini_result
            ab == result
            ba == reconcile(b, a)
        IN  /\ (a = b \/ (Present(a) # Present(b)) => ab = ba)
            /\ (Present(a) /\ Present(b) /\ a # b => ab = a /\ ba = b /\ ab # ba)

C2_Witness ==
    /\ pc = "observe"
    /\ paddle_result = XXXXX
    /\ gemini_result = AB12C
    /\ result = XXXXX
    /\ reconcile(gemini_result, paddle_result) = AB12C

\* ------------------------------------------------------------------------
\* C3
\* ------------------------------------------------------------------------

\* the records with key (d, c)
KeyMatches(res, d, c) ==
    {i \in 1..Len(res) : res[i].assortment_number = d /\ res[i].model_number = c}

\* one aggregation step, from results to results'
C3_ObserveStep ==
    (pc = "observe" /\ pc' = "loop") =>
        LET hit == KeyMatches(results, label, result)
        IN  /\ (~Present(result) => results' = results)
            /\ (Present(result) /\ hit # {} =>
                   /\ Cardinality(hit) = 1
                   /\ Len(results') = Len(results)
                   /\ \A i \in 1..Len(results) :
                         results'[i] =
                             IF i \in hit
                             THEN Record(label, result, results[i].quantity + 1)
                             ELSE results[i])
            /\ (Present(result) /\ hit = {} =>
                   results' = results \o <<Record(label, result, 1)>>)

\* no step of the program removes or reorders a record or lowers a quantity
C3_Monotone ==
    /\ Len(results') >= Len(results)
    /\ \A i \in 1..Len(results) :
          /\ results'[i].assortment_number = results[i].assortment_number
          /\ results'[i].model_number = results[i].model_number
          /\ results'[i].quantity >= results[i].quantity

\* observe("X","ABC12") three times and observe("X","ABC13") once
C3_Scenario ==
    (label = "X" /\ pc = "loop" /\ ObservedCodes = <<ABC12, ABC12, ABC12, ABC13>>) =>
        results = <<Record("X", ABC12, 3), Record("X", ABC13, 1)>>

\* C3: one aggregation step leaves the records unchanged for an absent code,
\* adds 1 to exactly the record with key (d, c) if there is one, and otherwise
\* appends (d, c, 1) after all records; no record is ever removed or reordered
\* and no quantity decreases; three ABC12 and one ABC13 under "X" give exactly
\* [("X","ABC12",3), ("X","ABC13",1)].
C3_Aggregation ==
    /\ [][C3_ObserveStep /\ C3_Monotone]_vars
    /\ []C3_Scenario

C3_Witness ==
    /\ label = "X"
    /\ pc = "loop"
    /\ ObservedCodes = <<ABC12, ABC12, ABC12, ABC13>>
    /\ results = <<Record("X", ABC12, 3), Record("X", ABC13, 1)>>

\* ------------------------------------------------------------------------
\* C4
\* ------------------------------------------------------------------------

\* C4: a finished run exports the header and exactly one row per distinct
\* non-absent reconciled code, in order of first appearance, with quantity the
\* number of images reconciled to it (the quantities sum to the number of
\* images with a non-absent result); the LOT7 scenario exports exactly the
\* row ("LOT7","AB12C",3).
C4_Export ==
    pc = "done" =>
        /\ csv_file.header = <<"assortment_number", "model_number", "quantity">>
        /\ csv_file.rows = ExpectedRows(label, observed)
        /\ Len(csv_file.rows) = Len(results)
        /\ SumQuantity(results) = Len(ObservedCodes)
        /\ (label = "LOT7" /\ lot7 = Len(Lot7A) =>
               csv_file.rows = << <<"LOT7", AB12C, <<"3">>>> >>)

C4_Witness ==
    /\ pc = "done"
    /\ label = "LOT7"
    /\ lot7 = Len(Lot7A)
    /\ observed = <<AB12C, AB12C, AB12C, << >>>>
    /\ csv_file.rows = << <<"LOT7", AB12C, <<"3">>>> >>

\* ------------------------------------------------------------------------
\* C5
\* ------------------------------------------------------------------------

\* C5: neither adapter raises on a backend failure: for a readable image with
\* a crop that has rows, whatever the backend does, the adapter returns and
\* the run is not aborted.
C5_AdaptersNeverRaise ==
    (image.readable /\ ~Degenerate(image)) => pc # "aborted"

\* ------------------------------------------------------------------------
\* C6
\* ------------------------------------------------------------------------

\* C6: without GEMINI_API_KEY no generate_content call is ever made, the
\* program does not fail at startup, process_image_gemini returns absent for
\* every image, and every reconciled result is PaddleOCR's result.
C6_NoCredential ==
    ~GEMINI_API_KEY =>
        /\ generate_calls = 0
        /\ gemini_model = "None"
        /\ (pc = "aborted" => image # NoImage /\ gemini_result = << >>)
        /\ (pc \in {"reconcile", "observe"} => gemini_result = << >>)
        /\ (pc = "observe" => result = paddle_result)

C6_Witness ==
    /\ ~GEMINI_API_KEY
    /\ pc = "observe"
    /\ Len(observed) = 1
    /\ paddle_result = AB12C
    /\ gemini_result = << >>
    /\ result = AB12C

\* ------------------------------------------------------------------------
\* C7
\* ------------------------------------------------------------------------

\* a text that is a Code, blanks around it aside
TextIsCode(t) == \E i \in 1..Len(t) :
    /\ RunAt(t, i)
    /\ \A k \in 1..Len(t) : (k < i \/ k > i + 4) => t[k] \in Whitespace

C9_LoggedOnce == log_no_key <= 1 /\ log_ocr_init <= 1

\* ------------------------------------------------------------------------
\* C10
\* ------------------------------------------------------------------------

\* C10: for an image whose crop has no rows no fault propagates, both adapters
\* return absent, the reconciled result is absent and the records stay as
\* they are.
C10_DegenerateCrop ==
    Degenerate(image) =>
        /\ pc # "aborted"
        /\ (pc \in {"gemini", "reconcile", "observe"} => paddle_result = << >>)
        /\ (pc \in {"reconcile", "observe"} => gemini_result = << >>)
        /\ (pc = "observe" => result = << >>)

====
